---------------------------- MODULE Spec2Model ----------------------------
(***************************************************************************)
(* Code-Guardian operational scripts.                                      *)
(*                                                                         *)
(*   scripts/github-api-setup.py            the protection configurator,   *)
(*                                          a linear script (Spec)         *)
(*   scripts/performance-dashboard-server.py the dashboard server: request *)
(*                                          handlers and a background      *)
(*                                          refresh thread (DashboardSpec) *)
(*                                                                         *)
(* The two programs are separate processes that share nothing, so each has *)
(* its own specification over its own variables.  Four parts of the       *)
(* dashboard are also run alone on drawn inputs: get_trend_data            *)
(* (TrendSpec), the page's updateStatusCards (StatusSpec), the             *)
(* /api/run-check handler (RunCheckSpec) and the alert-log tail of         *)
(* get_metrics (AlertsSpec).                                               *)
(*                                                                         *)
(* The collaborators are taken at their contract: a 200 response of the    *)
(* REST API carries the documented JSON object, and the monitoring         *)
(* script's output is decodable text.                                      *)
(*                                                                         *)
(* Python strings whose characters matter (the token, the answer to the    *)
(* prompt, stderr, log lines) are sequences of one-character strings.      *)
(***************************************************************************)
EXTENDS Integers, Sequences, FiniteSets, TLC

VARIABLES
    \* ---- configurator (github-api-setup.py) ----
    pc,             \* position of main()
    environ,        \* the GITHUB_TOKEN environment variable as main() found it
    ghCli,          \* what running `gh auth token` did
    token,          \* client.token
    events,         \* remote requests sent (with their outcome) and sleeps, in order
    phase,          \* which verify_protection_status call is running
    vIdx,           \* index into `branches` of the verify loop
    answer,         \* what input() returned
    bIdx,           \* index into branch_configs of the apply loop
    success_count,  \* main()'s success_count
    vulnOk,         \* result of enable_vulnerability_alerts()
    fixesOk,        \* result of enable_automated_security_fixes()
    summary,        \* what the "Setup Summary" block printed
    exitCode,       \* process exit status; Running while the script runs
    \* ---- dashboard server (performance-dashboard-server.py) ----
    now,            \* datetime.now(), in hours
    stateFile,      \* performance/monitor_state.json on disk
    writes,         \* how often the monitoring script has rewritten the file
    alertLog,       \* performance/alerts.log on disk
    data,           \* perf_data.data, the shared snapshot
    rpc,            \* position of the refresh thread inside load_data()
    sawFile,        \* what STATE_FILE.exists() returned to the refresh thread
    loadedFrom,     \* history: the file contents the loads so far have read
    hpc,            \* position of the get_metrics() handler
    tIdx,           \* which of the four trends get_metrics() computes next
    resp,           \* the /api/metrics response being built, then sent
    \* ---- one call of a function on drawn inputs ----
    call            \* the function called, its arguments and its result

cvars == <<pc, environ, ghCli, token, events, phase, vIdx, answer, bIdx,
           success_count, vulnOk, fixesOk, summary, exitCode>>

dvars == <<now, stateFile, writes, alertLog, data, rpc, sawFile, loadedFrom,
           hpc, tIdx, resp>>

vars == <<cvars, dvars, call>>

-----------------------------------------------------------------------------
(* Strings *)

Whitespace == {" ", "\n"}

RECURSIVE LStrip(_)
LStrip(s) == IF s # <<>> /\ Head(s) \in Whitespace THEN LStrip(Tail(s)) ELSE s

RECURSIVE RStrip(_)
RStrip(s) ==
    IF s # <<>> /\ s[Len(s)] \in Whitespace
    THEN RStrip(SubSeq(s, 1, Len(s) - 1))
    ELSE s

\* str.strip()
Strip(s) == RStrip(LStrip(s))

LowerChar(c) ==
    CASE c = "Y" -> "y"
      [] c = "E" -> "e"
      [] c = "S" -> "s"
      [] c = "N" -> "n"
      [] OTHER   -> c

\* str.lower()
Lower(s) == [i \in DOMAIN s |-> LowerChar(s[i])]

-----------------------------------------------------------------------------
(* Configurator: inputs *)

Running == 0 - 1

NoString == <<>>

\* GITHUB_TOKEN: unset, set to the empty string, or set to a value
EnvValues ==
    { [set |-> FALSE, val |-> NoString],
      [set |-> TRUE,  val |-> <<>>],
      [set |-> TRUE,  val |-> <<"e">>] }

\* `gh auth token`: not installed, cannot be executed, or ran to an exit
\* status with something on stdout
GhOutcomes ==
    { [kind |-> "missing", returncode |-> 0, stdout |-> NoString],
      [kind |-> "oserror", returncode |-> 0, stdout |-> NoString],
      [kind |-> "ran", returncode |-> 1, stdout |-> <<>>],
      [kind |-> "ran", returncode |-> 0, stdout |-> <<"g", "\n">>],
      [kind |-> "ran", returncode |-> 0, stdout |-> <<"\n">>] }

\* the CLI is not run at all when the environment variable holds a token
GhNotRun == [kind |-> "notrun", returncode |-> 0, stdout |-> NoString]

\* what the user types at the prompt
Answers ==
    { <<"y">>, <<"Y">>, <<"y", "e", "s">>, <<"Y", "e", "S">>,
      <<>>, <<"n">>, <<"N">>, <<" ", "y">>, <<"y", "e">>, <<"y", "y">> }

\* A remote call either cannot be completed (requests raises RequestException)
\* or completes with an HTTP status.
GetOutcomes ==
    { [completed |-> FALSE, status |-> 0] } \cup
    { [completed |-> TRUE, status |-> s] : s \in {200, 404, 500} }

PutOutcomes ==
    { [completed |-> FALSE, status |-> 0] } \cup
    { [completed |-> TRUE, status |-> s] : s \in {200, 204, 403} }

\* (the branches taken in sorted order)
branches_sorted == <<"develop", "main">>

\* list(create_branch_configs().keys())
branches == <<"main", "develop">>

ProtectionEndpoint(branch) == <<"branches", branch, "protection">>

Request(method, endpoint, out) ==
    [kind |-> "request", method |-> method, endpoint |-> endpoint,
     credential |-> token, completed |-> out.completed, status |-> out.status]

Sleep(seconds) ==
    [kind |-> "sleep", method |-> "-", endpoint |-> <<>>,
     credential |-> NoString, completed |-> TRUE, status |-> seconds]

NoSummary == [printed |-> FALSE, configured |-> 0, total |-> 0,
              security |-> "-", verdict |-> "-"]

-----------------------------------------------------------------------------
(* Configurator: the script *)

\* get_github_token(): the environment variable if truthy, else the CLI's
\* stripped stdout if it exited 0, else sys.exit(1).  An OSError other than
\* FileNotFoundError propagates to main()'s except.
EnvYieldsToken(env) == env.set /\ env.val # <<>>

get_github_token(env, gh) ==
    IF EnvYieldsToken(env)
    THEN [outcome |-> "return", value |-> env.val]
    ELSE IF gh.kind = "ran" /\ gh.returncode = 0
    THEN [outcome |-> "return", value |-> Strip(gh.stdout)]
    ELSE IF gh.kind = "oserror"
    THEN [outcome |-> "raise", value |-> NoString]
    ELSE [outcome |-> "exit", value |-> NoString]

\* sys.exit(code), also through the __main__ block's handlers
Exit(code) ==
    /\ pc' = "exited"
    /\ exitCode' = code

\* main(), "Get GitHub token" and "Initialize client"
Authenticate ==
    /\ pc = "start"
    /\ \E env \in EnvValues :
       \E gh \in IF EnvYieldsToken(env) THEN {GhNotRun} ELSE GhOutcomes :
         LET r == get_github_token(env, gh) IN
         /\ environ' = env
         /\ ghCli' = gh
         /\ IF r.outcome = "return"
            THEN /\ token' = r.value
                 /\ pc' = "info"
                 /\ UNCHANGED exitCode
            ELSE /\ Exit(1)
                 /\ UNCHANGED token
    /\ UNCHANGED <<events, phase, vIdx, answer, bIdx, success_count,
                   vulnOk, fixesOk, summary>>
    /\ UNCHANGED <<dvars, call>>

\* print_repository_summary() -> get_repository_info()
FetchRepositoryInfo ==
    /\ pc = "info"
    /\ \E out \in GetOutcomes :
         /\ events' = Append(events, Request("GET", <<>>, out))
         /\ IF out.completed /\ out.status = 200
            THEN /\ pc' = "verify"
                 /\ phase' = "before"
                 /\ vIdx' = 1
                 /\ UNCHANGED exitCode
            ELSE /\ Exit(1)
                 /\ UNCHANGED <<phase, vIdx>>
    /\ UNCHANGED <<environ, ghCli, token, answer, bIdx, success_count,
                   vulnOk, fixesOk, summary>>
    /\ UNCHANGED <<dvars, call>>

\* one iteration of verify_protection_status()'s loop -> get_branch_protection()
FetchBranchProtection ==
    /\ pc = "verify"
    /\ \E out \in GetOutcomes :
         /\ events' = Append(events,
                Request("GET", ProtectionEndpoint(branches[vIdx]), out))
         /\ IF ~out.completed
            THEN /\ Exit(1)
                 /\ UNCHANGED vIdx
            ELSE /\ UNCHANGED exitCode
                 /\ IF vIdx < Len(branches)
                    THEN /\ vIdx' = vIdx + 1
                         /\ pc' = "verify"
                    ELSE /\ vIdx' = 1
                         /\ pc' = IF phase = "before" THEN "prompt" ELSE "summary"
    /\ UNCHANGED <<environ, ghCli, token, phase, answer, bIdx, success_count,
                   vulnOk, fixesOk, summary>>
    /\ UNCHANGED <<dvars, call>>

\* (a prompt that takes any answer starting with "y" as consent)
DeclinedUnlessStartsWithY(response) ==
    ~(response # <<>> /\ Lower(response)[1] = "y")

\* response.lower() not in ['y', 'yes']
Declined(response) == Lower(response) \notin { <<"y">>, <<"y", "e", "s">> }

\* main(), "Ask for confirmation"
Confirm ==
    /\ pc = "prompt"
    /\ \E response \in Answers :
         /\ answer' = [given |-> TRUE, text |-> response]
         /\ IF Declined(response)
            THEN /\ Exit(0)
                 /\ UNCHANGED <<bIdx, success_count>>
            ELSE /\ pc' = "apply"
                 /\ bIdx' = 1
                 /\ success_count' = 0
                 /\ UNCHANGED exitCode
    /\ UNCHANGED <<environ, ghCli, token, events, phase, vIdx,
                   vulnOk, fixesOk, summary>>
    /\ UNCHANGED <<dvars, call>>

\* input() raises EOFError (stdin closed) or the user presses Ctrl-C: the
\* __main__ block exits 1
PromptInterrupted ==
    /\ pc = "prompt"
    /\ Exit(1)
    /\ UNCHANGED <<environ, ghCli, token, events, phase, vIdx, answer, bIdx,
                   success_count, vulnOk, fixesOk, summary>>
    /\ UNCHANGED <<dvars, call>>

\* set_branch_protection()'s verdict on a completed PUT
ProtectionApplied(status) == status = 200

\* one iteration of main()'s "Apply protection rules" loop
ApplyProtection ==
    /\ pc = "apply"
    /\ \E out \in PutOutcomes :
         LET put == Request("PUT", ProtectionEndpoint(branches[bIdx]), out) IN
         IF ~out.completed
         THEN /\ events' = Append(events, put)
              /\ Exit(1)
              /\ UNCHANGED <<bIdx, success_count>>
         ELSE /\ UNCHANGED exitCode
              /\ IF ProtectionApplied(out.status)
                 THEN /\ success_count' = success_count + 1
                      /\ events' = events \o <<put, Sleep(1)>>
                 ELSE /\ events' = Append(events, put)
                      /\ UNCHANGED success_count
              /\ IF bIdx < Len(branches)
                 THEN /\ bIdx' = bIdx + 1
                      /\ pc' = "apply"
                 ELSE /\ bIdx' = 1
                      /\ pc' = "alerts"
    /\ UNCHANGED <<environ, ghCli, token, phase, vIdx, answer,
                   vulnOk, fixesOk, summary>>
    /\ UNCHANGED <<dvars, call>>

\* response.status_code in [200, 204]
FeatureEnabled(status) == status \in {200, 204}

\* client.enable_vulnerability_alerts()
EnableVulnerabilityAlerts ==
    /\ pc = "alerts"
    /\ \E out \in PutOutcomes :
         /\ events' = Append(events, Request("PUT", <<"vulnerability-alerts">>, out))
         /\ IF ~out.completed
            THEN /\ Exit(1)
                 /\ UNCHANGED vulnOk
            ELSE /\ vulnOk' = FeatureEnabled(out.status)
                 /\ pc' = "fixes"
                 /\ UNCHANGED exitCode
    /\ UNCHANGED <<environ, ghCli, token, phase, vIdx, answer, bIdx,
                   success_count, fixesOk, summary>>
    /\ UNCHANGED <<dvars, call>>

\* client.enable_automated_security_fixes(), then "Final verification" starts
EnableAutomatedFixes ==
    /\ pc = "fixes"
    /\ \E out \in PutOutcomes :
         /\ events' = Append(events,
                Request("PUT", <<"automated-security-fixes">>, out))
         /\ IF ~out.completed
            THEN /\ Exit(1)
                 /\ UNCHANGED <<fixesOk, phase>>
            ELSE /\ fixesOk' = FeatureEnabled(out.status)
                 /\ pc' = "verify"
                 /\ phase' = "after"
                 /\ UNCHANGED exitCode
    /\ UNCHANGED <<environ, ghCli, token, vIdx, answer, bIdx,
                   success_count, vulnOk, summary>>
    /\ UNCHANGED <<dvars, call>>

\* main(), "Summary": the tally, the security-features line and the verdict;
\* main() then returns and the process exits 0
PrintSummary ==
    /\ pc = "summary"
    /\ summary' = [printed |-> TRUE,
                   configured |-> success_count,
                   total |-> Len(branches),
                   security |-> "Enabled",
                   verdict |-> IF success_count = Len(branches)
                               THEN "completed successfully"
                               ELSE "some may have failed"]
    /\ Exit(0)
    /\ UNCHANGED <<environ, ghCli, token, events, phase, vIdx, answer, bIdx,
                   success_count, vulnOk, fixesOk>>
    /\ UNCHANGED <<dvars, call>>

-----------------------------------------------------------------------------
(* Dashboard: the data *)

Metrics == <<"build_time", "test_time", "coverage", "memory_mb">>

MetricNames == {Metrics[i] : i \in DOMAIN Metrics}

MetricIndex(m) == CHOOSE i \in DOMAIN Metrics : Metrics[i] = m

\* get_trend_data(self, metric, hours=24)
TrendHours == 24

\* f.readlines()[-10:]
TailLines == 10

\* subprocess.run(..., timeout=300)
CheckTimeout == 300

\* the local clock, in hours, when the server starts
StartTime == TrendHours + TrendHours

\* how many hours the clock advances while the server is watched
MaxTicks == 1

\* how often the monitoring script rewrites the state file
MaxWrites == 1

\* longest metrics_history of the get_trend_data inputs
MaxHistory == 2

\* longest captured stderr, in characters
MaxStderr == 2

\* most /api/run-check requests served
MaxChecks == 2

\* A "timestamp" value of a history entry: an ISO-8601 string without a zone
\* ("naive": local time), with a trailing Z ("zulu") or with a UTC offset
\* ("offset"), a string that is no ISO-8601 date ("garbage"), a JSON value
\* that is no string ("number"), or no such key ("missing").  t is the
\* instant it denotes, in hours.
Stamp(form, t) == [form |-> form, t |-> t]

\* A JSON object of metrics_history with the keys `has`; a metrics_history
\* element that is no object has isDict = FALSE.
Entry(isDict, ts, has, base) ==
    [isDict |-> isDict, ts |-> ts, has |-> has,
     val |-> [m \in MetricNames |-> IF m \in has THEN base + MetricIndex(m) ELSE 0]]

\* {}
EmptyObject == Entry(TRUE, Stamp("missing", 0), {}, 0)

Entries ==
    { Entry(TRUE,  Stamp("naive",   StartTime - 1),              MetricNames,      10),
      Entry(TRUE,  Stamp("naive",   StartTime - TrendHours),     {"build_time"},   20),
      Entry(TRUE,  Stamp("naive",   StartTime - TrendHours - 1), MetricNames,      30),
      Entry(TRUE,  Stamp("zulu",    StartTime - 1),              MetricNames,      40),
      Entry(TRUE,  Stamp("offset",  StartTime - 2),              MetricNames,      50),
      Entry(TRUE,  Stamp("garbage", 0),                          MetricNames,      60),
      Entry(TRUE,  Stamp("number",  0),                          MetricNames,      70),
      Entry(TRUE,  Stamp("missing", 0),                          {"coverage"},     80),
      Entry(FALSE, Stamp("missing", 0),                          {},               0) }

SeqsUpTo(S, n) == UNION { [1..k -> S] : k \in 0..n }

\* Python values: a list, or None (JSON null)
List(items) == [type |-> "list", items |-> items]

None == [type |-> "null", items |-> <<>>]

Keys == {"consecutive_failures", "last_successful_run", "metrics_history"}

\* a JSON object at the top of the state file, with the keys `has`
Dict(has, failures, lastRun, history) ==
    [type |-> "dict", has |-> has, consecutive_failures |-> failures,
     last_successful_run |-> lastRun, metrics_history |-> history]

\* a JSON array at the top of the state file: valid JSON, not an object
TopLevelArray ==
    [type |-> "list", has |-> {}, consecutive_failures |-> 0,
     last_successful_run |-> "", metrics_history |-> None]

\* load_data()'s default structure
DefaultData == Dict(Keys, 0, "", List(<<>>))

\* the state file: absent, or present with a text that is empty, is no JSON
\* ("garbage") or is the JSON value `json`
File(exists, text, json) == [exists |-> exists, text |-> text, json |-> json]

AbsentFile == File(FALSE, "-", TopLevelArray)

EmptyFile == File(TRUE, "empty", TopLevelArray)

GarbageFile == File(TRUE, "garbage", TopLevelArray)

JsonFile(json) == File(TRUE, "json", json)

\* the state file contents of the server runs: the documented layout with
\* one and with two entries, and the contents that are not that layout
FileContents ==
    { AbsentFile, EmptyFile, GarbageFile,
      JsonFile(TopLevelArray),
      JsonFile(Dict({"consecutive_failures"}, 3, "", None)),
      JsonFile(Dict(Keys, 1, "r1",
          List(<< Entry(TRUE, Stamp("naive", StartTime - TrendHours), MetricNames, 10) >>))),
      JsonFile(Dict(Keys, 2, "r2",
          List(<< Entry(TRUE, Stamp("zulu", StartTime - 1), MetricNames, 40),
                  Entry(TRUE, Stamp("naive", StartTime - 1), MetricNames, 20) >>))) }

\* alerts.log: absent, unreadable, or lines of text
Log(exists, readable, lines) == [exists |-> exists, readable |-> readable, lines |-> lines]

AlertLogs ==
    { Log(FALSE, FALSE, <<>>),
      Log(TRUE, TRUE, << <<"a", "\n">>, <<"\n">>, <<" ", "b", "\n">> >>) }

-----------------------------------------------------------------------------
(* Dashboard: PerformanceData *)

\* json.load(f): the value, or JSONDecodeError
json_load(f) ==
    IF f.text = "json"
    THEN [raised |-> FALSE, value |-> f.json]
    ELSE [raised |-> TRUE, value |-> DefaultData]

\* load_data(): the object that is assigned to self.data.  `exists` is what
\* STATE_FILE.exists() returned and f the file when open() runs; a file gone
\* in between raises FileNotFoundError, caught like a JSONDecodeError.
load_data(exists, f) ==
    IF ~exists THEN DefaultData
    ELSE IF ~f.exists THEN DefaultData
    ELSE IF json_load(f).raised THEN DefaultData
    ELSE json_load(f).value

\* (dict.update(): keeps the old value of every key the new load does not hold)
UpdateInPlace(old, loaded) ==
    IF old.type = "dict" /\ loaded.type = "dict"
    THEN Dict(old.has \cup loaded.has,
              IF "consecutive_failures" \in loaded.has
                  THEN loaded.consecutive_failures ELSE old.consecutive_failures,
              IF "last_successful_run" \in loaded.has
                  THEN loaded.last_successful_run ELSE old.last_successful_run,
              IF "metrics_history" \in loaded.has
                  THEN loaded.metrics_history ELSE old.metrics_history)
    ELSE loaded

\* self.data = <loaded>: one reassignment of the reference
AssignData(old, loaded) == loaded

Raised == [raised |-> TRUE, value |-> <<>>]

Returned(v) == [raised |-> FALSE, value |-> v]

\* d.get("metrics_history", default): AttributeError when d is no dict
GetHistory(d, default) ==
    IF "metrics_history" \in d.has THEN d.metrics_history ELSE default

\* bool(self.data.get("metrics_history")) in get_latest_metrics()
HistoryTruthy(d) ==
    IF d.type # "dict" THEN [raised |-> TRUE, value |-> FALSE]
    ELSE Returned(GetHistory(d, None).type = "list" /\ GetHistory(d, None).items # <<>>)

\* self.data["metrics_history"][-1] in get_latest_metrics(): TypeError,
\* KeyError or IndexError when there is no last element
LastEntry(d) ==
    IF \/ d.type # "dict"
       \/ "metrics_history" \notin d.has
       \/ d.metrics_history.type # "list"
       \/ d.metrics_history.items = <<>>
    THEN [raised |-> TRUE, value |-> EmptyObject]
    ELSE Returned(d.metrics_history.items[Len(d.metrics_history.items)])

\* datetime.fromisoformat(entry.get("timestamp", "").replace("Z", "+00:00")):
\* a naive datetime, an aware one, or an exception (AttributeError for a
\* non-string, ValueError for a string that is no ISO date, the empty one
\* included)
fromisoformat(ts) ==
    CASE ts.form = "naive"               -> [raised |-> FALSE, aware |-> FALSE, t |-> ts.t]
      [] ts.form \in {"zulu", "offset"}  -> [raised |-> FALSE, aware |-> TRUE,  t |-> ts.t]
      [] OTHER                           -> [raised |-> TRUE,  aware |-> FALSE, t |-> 0]

\* entry_time >= cutoff_time, where cutoff_time = datetime.now() - timedelta
\* is naive: Python refuses to order an aware and a naive datetime (TypeError)
NotBeforeCutoff(entry_time, cutoff_time) ==
    IF entry_time.aware
    THEN [raised |-> TRUE, value |-> FALSE]
    ELSE Returned(entry_time.t >= cutoff_time)

\* (a comparison that drops the cutoff)
AppendsAnyParsed(entry, cutoff_time) ==
    /\ entry.isDict
    /\ ~fromisoformat(entry.ts).raised

\* the body of get_trend_data()'s loop appends a point for `entry`: no
\* statement of the try block raised and the comparison was true
Appends(entry, cutoff_time) ==
    /\ entry.isDict
    /\ ~fromisoformat(entry.ts).raised
    /\ ~NotBeforeCutoff(fromisoformat(entry.ts), cutoff_time).raised
    /\ NotBeforeCutoff(fromisoformat(entry.ts), cutoff_time).value

\* {"timestamp": entry["timestamp"], "value": entry.get(metric, 0)}
Point(entry, metric) ==
    [timestamp |-> entry.ts,
     value |-> IF metric \in entry.has THEN entry.val[metric] ELSE 0]

RECURSIVE TrendLoop(_, _, _)
TrendLoop(items, metric, cutoff_time) ==
    IF items = <<>> THEN <<>>
    ELSE IF Appends(Head(items), cutoff_time)
    THEN <<Point(Head(items), metric)>> \o TrendLoop(Tail(items), metric, cutoff_time)
    ELSE TrendLoop(Tail(items), metric, cutoff_time)

\* get_trend_data(metric) on the snapshot d at local time t: AttributeError
\* when d is no dict, TypeError when metrics_history is null
get_trend_data(d, metric, t) ==
    IF d.type # "dict" THEN Raised
    ELSE IF GetHistory(d, List(<<>>)).type # "list" THEN Raised
    ELSE Returned(TrendLoop(GetHistory(d, List(<<>>)).items, metric, t - TrendHours))

\* perf_data.data.get('consecutive_failures', 0)
GetStatus(d) ==
    IF d.type # "dict" THEN [raised |-> TRUE, value |-> 0]
    ELSE Returned(IF "consecutive_failures" \in d.has THEN d.consecutive_failures ELSE 0)

Max(a, b) == IF a > b THEN a ELSE b

\* get_metrics(), "Get recent alerts": the stripped non-empty lines among the
\* last 10 lines; [] when the log is absent or open() raises
RecentAlerts(log) ==
    IF ~log.exists \/ ~log.readable THEN <<>>
    ELSE LET last == SubSeq(log.lines, Max(1, Len(log.lines) - TailLines + 1), Len(log.lines))
             stripped == [i \in DOMAIN last |-> Strip(last[i])]
         IN SelectSeq(stripped, LAMBDA line : line # <<>>)

-----------------------------------------------------------------------------
(* Dashboard: the server *)

NoResponse ==
    [state |-> "none", latest |-> EmptyObject,
     trends |-> [m \in MetricNames |-> <<>>], alerts |-> <<>>, status |-> 0]

\* an exception escapes the view function: Flask answers 500
InternalServerError == [NoResponse EXCEPT !.state = "error"]

\* the external monitoring script replaces the state file, or removes it
WriteStateFile ==
    /\ writes < MaxWrites
    /\ \E f \in FileContents \ {stateFile} : stateFile' = f
    /\ writes' = writes + 1
    /\ UNCHANGED <<now, alertLog, data, rpc, sawFile, loadedFrom, hpc, tIdx, resp>>
    /\ UNCHANGED <<cvars, call>>

\* an hour passes on the local clock
Tick ==
    /\ now < StartTime + MaxTicks
    /\ now' = now + 1
    /\ UNCHANGED <<stateFile, writes, alertLog, data, rpc, sawFile, loadedFrom,
                   hpc, tIdx, resp>>
    /\ UNCHANGED <<cvars, call>>

\* refresh_data(): the sleep ends and load_data() tests STATE_FILE.exists()
RefreshExists ==
    /\ rpc = "sleep"
    /\ sawFile' = stateFile.exists
    /\ rpc' = "load"
    /\ UNCHANGED <<now, stateFile, writes, alertLog, data, loadedFrom, hpc, tIdx, resp>>
    /\ UNCHANGED <<cvars, call>>

\* load_data(): open, json.load and the assignment to self.data (or the
\* assignment of the default), then time.sleep(UPDATE_INTERVAL)
RefreshLoad ==
    /\ rpc = "load"
    /\ data' = AssignData(data, load_data(sawFile, stateFile))
    /\ loadedFrom' = loadedFrom \cup {IF sawFile THEN stateFile ELSE AbsentFile}
    /\ rpc' = "sleep"
    /\ UNCHANGED <<now, stateFile, writes, alertLog, sawFile, hpc, tIdx, resp>>
    /\ UNCHANGED <<cvars, call>>

\* (a handler that loads the state file itself)
read_state_file == load_data(stateFile.exists, stateFile)

\* self.data / perf_data.data as a request handler reads it: the reference
\* the last load assigned
self_data == data

HandlerRaises ==
    /\ resp' = InternalServerError
    /\ hpc' = "idle"
    /\ tIdx' = 1

\* GET /api/metrics arrives; get_latest_metrics() tests
\* self.data.get("metrics_history")
GetMetricsBegin ==
    /\ hpc = "idle"
    /\ IF HistoryTruthy(self_data).raised
       THEN HandlerRaises
       ELSE /\ resp' = [NoResponse EXCEPT !.state = "building"]
            /\ hpc' = IF HistoryTruthy(self_data).value THEN "latest" ELSE "trends"
            /\ tIdx' = 1
    /\ UNCHANGED <<now, stateFile, writes, alertLog, data, rpc, sawFile, loadedFrom>>
    /\ UNCHANGED <<cvars, call>>

\* get_latest_metrics() reads self.data again for
\* self.data["metrics_history"][-1]
GetLatestMetrics ==
    /\ hpc = "latest"
    /\ IF LastEntry(self_data).raised
       THEN HandlerRaises
       ELSE /\ resp' = [resp EXCEPT !.latest = LastEntry(self_data).value]
            /\ hpc' = "trends"
            /\ UNCHANGED tIdx
    /\ UNCHANGED <<now, stateFile, writes, alertLog, data, rpc, sawFile, loadedFrom>>
    /\ UNCHANGED <<cvars, call>>

\* one of get_metrics()'s four perf_data.get_trend_data(metric) calls
GetTrendData ==
    /\ hpc = "trends"
    /\ LET r == get_trend_data(self_data, Metrics[tIdx], now) IN
       IF r.raised
       THEN HandlerRaises
       ELSE /\ resp' = [resp EXCEPT !.trends[Metrics[tIdx]] = r.value]
            /\ IF tIdx < Len(Metrics)
               THEN /\ tIdx' = tIdx + 1
                    /\ hpc' = "trends"
               ELSE /\ tIdx' = 1
                    /\ hpc' = "alerts"
    /\ UNCHANGED <<now, stateFile, writes, alertLog, data, rpc, sawFile, loadedFrom>>
    /\ UNCHANGED <<cvars, call>>

\* get_metrics(), "Get recent alerts"
ReadAlerts ==
    /\ hpc = "alerts"
    /\ resp' = [resp EXCEPT !.alerts = RecentAlerts(alertLog)]
    /\ hpc' = "status"
    /\ UNCHANGED <<now, stateFile, writes, alertLog, data, rpc, sawFile, loadedFrom, tIdx>>
    /\ UNCHANGED <<cvars, call>>

\* get_metrics() reads perf_data.data for 'status' and returns jsonify(...)
GetMetricsReturn ==
    /\ hpc = "status"
    /\ IF GetStatus(self_data).raised
       THEN HandlerRaises
       ELSE /\ resp' = [resp EXCEPT !.status = GetStatus(self_data).value, !.state = "sent"]
            /\ hpc' = "idle"
            /\ UNCHANGED tIdx
    /\ UNCHANGED <<now, stateFile, writes, alertLog, data, rpc, sawFile, loadedFrom>>
    /\ UNCHANGED <<cvars, call>>

\* the server as it is before anything of it runs
DashboardIdle ==
    /\ now = StartTime
    /\ stateFile = AbsentFile
    /\ writes = 0
    /\ alertLog = Log(FALSE, FALSE, <<>>)
    /\ data = DefaultData
    /\ rpc = "sleep"
    /\ sawFile = FALSE
    /\ loadedFrom = {AbsentFile}
    /\ hpc = "idle"
    /\ tIdx = 1
    /\ resp = NoResponse

\* the module is imported: PerformanceData() loads the state file once,
\* then the refresh thread and the server start
DashboardInit ==
    /\ now = StartTime
    /\ stateFile \in FileContents
    /\ writes = 0
    /\ alertLog \in AlertLogs
    /\ data = AssignData(Dict({}, 0, "", None), load_data(stateFile.exists, stateFile))
    /\ rpc = "sleep"
    /\ sawFile = stateFile.exists
    /\ loadedFrom = {stateFile}
    /\ hpc = "idle"
    /\ tIdx = 1
    /\ resp = NoResponse

NoCall == [fn |-> "none"]

ConfiguratorInit ==
    /\ pc = "start"
    /\ environ = [set |-> FALSE, val |-> NoString]
    /\ ghCli = GhNotRun
    /\ token = NoString
    /\ events = <<>>
    /\ phase = "before"
    /\ vIdx = 1
    /\ answer = [given |-> FALSE, text |-> NoString]
    /\ bIdx = 1
    /\ success_count = 0
    /\ vulnOk = FALSE
    /\ fixesOk = FALSE
    /\ summary = NoSummary
    /\ exitCode = Running

\* the configurator runs alone: nothing of the dashboard exists in its process
Init ==
    /\ ConfiguratorInit
    /\ DashboardIdle
    /\ call = NoCall

Next ==
    \/ Authenticate
    \/ FetchRepositoryInfo
    \/ FetchBranchProtection
    \/ Confirm
    \/ PromptInterrupted
    \/ ApplyProtection
    \/ EnableVulnerabilityAlerts
    \/ EnableAutomatedFixes
    \/ PrintSummary

Spec == Init /\ [][Next]_vars

DashboardNext ==
    \/ WriteStateFile
    \/ Tick
    \/ RefreshExists
    \/ RefreshLoad
    \/ GetMetricsBegin
    \/ GetLatestMetrics
    \/ GetTrendData
    \/ ReadAlerts
    \/ GetMetricsReturn

\* the server runs alone: nothing of the configurator exists in its process
DashboardStart ==
    /\ ConfiguratorInit
    /\ DashboardInit
    /\ call = NoCall

DashboardSpec == DashboardStart /\ [][DashboardNext]_vars

\* the refresh thread is a daemon thread that loops forever and the handler
\* threads run to their return
DashboardFairSpec ==
    /\ DashboardSpec
    /\ WF_vars(RefreshExists)
    /\ WF_vars(RefreshLoad)

-----------------------------------------------------------------------------
(* Dashboard: functions called on drawn inputs *)

Histories == SeqsUpTo(Entries, MaxHistory)

\* snapshots get_trend_data() may find in self.data: every history of the
\* documented layout, and loads of files that are not that layout
Snapshots ==
    { Dict(Keys, 0, "", List(h)) : h \in Histories } \cup
    { TopLevelArray, Dict(Keys, 0, "", None), Dict({"consecutive_failures"}, 3, "", None) }

\* perf_data.get_trend_data(metric) on the drawn snapshot, at the drawn time
CallGetTrendData ==
    /\ call.fn = "get_trend_data" /\ ~call.done
    /\ call' = [call EXCEPT !.done = TRUE,
                            !.result = get_trend_data(call.data, call.metric, call.now)]
    /\ UNCHANGED <<cvars, dvars>>

TrendStart ==
    /\ ConfiguratorInit
    /\ DashboardIdle
    /\ \E d \in Snapshots, m \in MetricNames, t \in StartTime..(StartTime + MaxTicks) :
         call = [fn |-> "get_trend_data", data |-> d, metric |-> m, now |-> t,
                 done |-> FALSE, result |-> Returned(<<>>)]

TrendNext == CallGetTrendData

TrendSpec == TrendStart /\ [][TrendNext]_vars

\* most lines of the alert logs that "Get recent alerts" is run on
MaxLogLines == 11

\* line i of alerts.log as readlines() returns it: an alert, indented, with
\* its newline
AlertLine(i) == <<" ", "!", ToString(i), "\n">>

\* a line of nothing but white space
BlankLine == <<" ", "\n">>

\* alerts.log: absent, present but unreadable (open() raises), or up to
\* MaxLogLines lines, any of them blank
LogsUpTo(n) ==
    { Log(FALSE, FALSE, <<>>), Log(TRUE, FALSE, <<>>) } \cup
    UNION { { Log(TRUE, TRUE,
                  [i \in 1..k |-> IF i \in blanks THEN BlankLine ELSE AlertLine(i)]) :
                blanks \in SUBSET (1..k) } : k \in 0..n }

\* get_metrics(), "Get recent alerts", on the drawn log
CallRecentAlerts ==
    /\ call.fn = "recent_alerts" /\ ~call.done
    /\ call' = [call EXCEPT !.done = TRUE, !.result = RecentAlerts(call.log)]
    /\ UNCHANGED <<cvars, dvars>>

AlertsStart ==
    /\ ConfiguratorInit
    /\ DashboardIdle
    /\ \E log \in LogsUpTo(MaxLogLines) :
         call = [fn |-> "recent_alerts", log |-> log, done |-> FALSE, result |-> <<>>]

AlertsNext == CallRecentAlerts

AlertsSpec == AlertsStart /\ [][AlertsNext]_vars

\* Metric values are decimal numbers with one fractional digit, held in
\* tenths: Number(180) is 180 and Number(82) + 1 is 82.1.
Number(n) == n * 10

\* (a comparison that counts the threshold itself as critical)
getStatusClassInclusive(metric, value, threshold, comparison) ==
    IF comparison = "gt"
    THEN IF value >= threshold THEN "critical" ELSE "good"
    ELSE IF value <= threshold THEN "critical" ELSE "good"

\* getStatusClass(metric, value, threshold, comparison) of the page's script
getStatusClass(metric, value, threshold, comparison) ==
    IF comparison = "gt"
    THEN IF value > threshold THEN "critical" ELSE "good"
    ELSE IF value < threshold THEN "critical" ELSE "good"

\* metrics.<name> || 0
OrZero(metrics, name) ==
    IF metrics.isDict /\ name \in metrics.has THEN metrics.val[name] ELSE 0

\* (the coverage card compared in the direction of the other three cards)
updateStatusCardsCoverageGt(metrics) ==
    [build_time |-> getStatusClass("build_time", OrZero(metrics, "build_time"), Number(180), "gt"),
     test_time  |-> getStatusClass("test_time",  OrZero(metrics, "test_time"),  Number(120), "gt"),
     coverage   |-> getStatusClass("coverage",   OrZero(metrics, "coverage"),   Number(82),  "gt"),
     memory_mb  |-> getStatusClass("memory_mb",  OrZero(metrics, "memory_mb"),  Number(200), "gt")]

\* updateStatusCards(metrics): the four status classes it renders
updateStatusCards(metrics) ==
    [build_time |-> getStatusClass("build_time", OrZero(metrics, "build_time"), Number(180), "gt"),
     test_time  |-> getStatusClass("test_time",  OrZero(metrics, "test_time"),  Number(120), "gt"),
     coverage   |-> getStatusClass("coverage",   OrZero(metrics, "coverage"),   Number(82),  "lt"),
     memory_mb  |-> getStatusClass("memory_mb",  OrZero(metrics, "memory_mb"),  Number(200), "gt")]

\* `latest` objects around the four thresholds: each metric absent, or a
\* tenth below, at, or a tenth above its threshold
AroundThresholds ==
    LET at == [build_time |-> Number(180), test_time |-> Number(120),
               coverage |-> Number(82), memory_mb |-> Number(200)]
    IN { [isDict |-> TRUE, ts |-> Stamp("naive", StartTime), has |-> has,
          val |-> [m \in MetricNames |-> IF m \in has THEN at[m] + off[m] ELSE 0]] :
             has \in SUBSET MetricNames, off \in [MetricNames -> {0 - 1, 0, 1}] }

\* refreshData() of the page: updateStatusCards(data.latest)
CallUpdateStatusCards ==
    /\ call.fn = "updateStatusCards" /\ ~call.done
    /\ call' = [call EXCEPT !.done = TRUE, !.result = updateStatusCards(call.metrics)]
    /\ UNCHANGED <<cvars, dvars>>

StatusStart ==
    /\ ConfiguratorInit
    /\ DashboardIdle
    /\ \E metrics \in AroundThresholds \cup {EmptyObject} :
         call = [fn |-> "updateStatusCards", metrics |-> metrics, done |-> FALSE,
                 result |-> [m \in MetricNames |-> "-"]]

StatusNext == CallUpdateStatusCards

StatusSpec == StatusStart /\ [][StatusNext]_vars

\* ./scripts/continuous-monitor.sh check as subprocess.run() meets it: it cannot
\* be spawned (OSError with the text `error`), or it runs for `duration`
\* seconds and exits with `returncode`, having written `stderr`
Child(spawned, error, duration, returncode, stderr) ==
    [spawned |-> spawned, error |-> error, duration |-> duration,
     returncode |-> returncode, stderr |-> stderr]

Children ==
    { Child(FALSE, e, 0, 0, <<>>) : e \in { <<"n">>, <<"p">> } } \cup
    { Child(TRUE, <<>>, d, rc, err) :
        d \in {1, CheckTimeout - 1, CheckTimeout + 1},
        rc \in {0, 1, 2},
        err \in SeqsUpTo({"E", "\n"}, MaxStderr) }

Message(head, detail) == [head |-> head, detail |-> detail]

\* (handlers in the other order: `except Exception` first)
run_check_generic_handler(child) ==
    IF ~child.spawned
    THEN Message("Error running check: ", child.error)
    ELSE IF child.duration > CheckTimeout
    THEN Message("Error running check: ", <<"t">>)
    ELSE IF child.returncode = 0
    THEN Message("Performance check completed successfully!", <<>>)
    ELSE Message("Performance check failed: ", child.stderr)

\* run_check(): the JSON message for what the subprocess did
run_check(child) ==
    IF ~child.spawned
    THEN Message("Error running check: ", child.error)
    ELSE IF child.duration > CheckTimeout
    THEN Message("Performance check timed out", <<>>)
    ELSE IF child.returncode = 0
    THEN Message("Performance check completed successfully!", <<>>)
    ELSE Message("Performance check failed: ", child.stderr)

\* how long run_check() blocks its request
Blocked(child) ==
    IF ~child.spawned THEN 0
    ELSE IF child.duration > CheckTimeout THEN CheckTimeout
    ELSE child.duration

\* POST /api/run-check
RunCheck ==
    /\ \E child \in Children :
         call' = [fn |-> "run_check", child |-> child,
                  served |-> IF call.fn = "run_check" THEN call.served + 1 ELSE 1,
                  blocked |-> Blocked(child),
                  result |-> run_check(child)]
    /\ call.fn = "run_check" => call.served < MaxChecks
    /\ UNCHANGED <<cvars, dvars>>

RunCheckStart ==
    /\ ConfiguratorInit
    /\ DashboardIdle
    /\ call = NoCall

RunCheckNext == RunCheck

RunCheckSpec == RunCheckStart /\ [][RunCheckNext]_vars

-----------------------------------------------------------------------------
(* Configurator: properties *)

IsRequest(e) == e.kind = "request"

\* a request that changes the repository's settings
Mutating(e) == IsRequest(e) /\ e.method = "PUT"

MutatingSent == \E i \in DOMAIN events : Mutating(events[i])

\* "y" or "yes" in any mix of upper and lower case
SaidYes(a) ==
    \/ Len(a) = 1 /\ a[1] \in {"y", "Y"}
    \/ Len(a) = 3 /\ a[1] \in {"y", "Y"} /\ a[2] \in {"e", "E"} /\ a[3] \in {"s", "S"}

Confirmed == answer.given /\ SaidYes(answer.text)

InfoReturned200 ==
    /\ events # <<>>
    /\ events[1].method = "GET" /\ events[1].endpoint = <<>>
    /\ events[1].completed /\ events[1].status = 200

\* C1: no mutating request (a PUT) is ever sent unless the repository-info
\* GET returned 200 and the answer to the prompt was y or yes in any case;
\* after any other answer, the empty one included, the run has ended with
\* exit code 0 and has sent no mutating request.
C1_NoMutationWithoutConsent ==
    /\ MutatingSent => (InfoReturned200 /\ Confirmed)
    /\ (answer.given /\ ~SaidYes(answer.text)) =>
          (pc = "exited" /\ exitCode = 0 /\ ~MutatingSent)

\* a PUT has gone out after the mixed-case answer "YeS"
C1_Witness ==
    /\ MutatingSent
    /\ answer.text = <<"Y", "e", "S">>

ProtectionPuts ==
    SelectSeq(events, LAMBDA e : Mutating(e) /\ Len(e.endpoint) = 3)

PutAttempted(branch) ==
    \E i \in DOMAIN events :
        Mutating(events[i]) /\ events[i].endpoint = ProtectionEndpoint(branch)

\* C2: once the user has confirmed (in a run that holds a credential), no failure of a later remote call (a
\* non-success status or a request that cannot be completed) aborts the
\* run: it ends at the summary with exit code 0, the protection PUT was
\* attempted for both branches, and the branches tallied as succeeded plus
\* those that failed are exactly 2, the tally being the number of PUTs that
\* returned 200.
C2_FailuresNeverAbort ==
    (Confirmed /\ token # <<>> /\ pc = "exited") =>
        /\ summary.printed /\ exitCode = 0
        /\ \A i \in DOMAIN branches : PutAttempted(branches[i])
        /\ LET ok     == SelectSeq(ProtectionPuts, LAMBDA e : e.completed /\ e.status = 200)
               failed == SelectSeq(ProtectionPuts, LAMBDA e : ~(e.completed /\ e.status = 200))
           IN /\ summary.configured = Len(ok)
              /\ summary.configured + Len(failed) = 2

\* neither source yields a token: the variable is unset or empty, and the
\* CLI is missing, cannot be run, exits nonzero or prints only whitespace
NoTokenAvailable ==
    /\ ~(environ.set /\ environ.val # <<>>)
    /\ \/ ghCli.kind \in {"missing", "oserror"}
       \/ ghCli.kind = "ran" /\ ghCli.returncode # 0
       \/ ghCli.kind = "ran" /\ \A i \in DOMAIN ghCli.stdout : ghCli.stdout[i] \in Whitespace

\* C3: authentication yields a non-empty token or ends the process with a
\* nonzero exit code: when neither the variable nor the CLI yields a token
\* the run exits nonzero before any remote call, and no request is ever
\* sent with an empty credential.
C3_TokenOrFatalExit ==
    /\ (pc # "start" /\ NoTokenAvailable) =>
          (pc = "exited" /\ exitCode > 0 /\ events = <<>>)
    /\ \A i \in DOMAIN events : IsRequest(events[i]) => events[i].credential # <<>>

\* C12: the final summary reports the security features as enabled only
\* when both toggles succeeded (vulnerability alerts and automated security
\* fixes each answered 200 or 204), and reports a failure when either did
\* not.  (Stated of runs that hold a credential.)
C12_SummarySurfacesToggleFailures ==
    (summary.printed /\ token # <<>>) =>
        LET toggle(name) ==
                SelectSeq(events, LAMBDA e : Mutating(e) /\ e.endpoint = <<name>>)
            succeeded(name) ==
                /\ Len(toggle(name)) = 1
                /\ toggle(name)[1].completed
                /\ toggle(name)[1].status \in {200, 204}
        IN (summary.security = "Enabled") <=>
              (succeeded("vulnerability-alerts") /\ succeeded("automated-security-fixes"))

\* the protection PUT for `branch`
IsProtectionPut(e, branch) ==
    Mutating(e) /\ e.endpoint = <<"branches", branch, "protection">>

IsSleep(e, seconds) == e.kind = "sleep" /\ e.status = seconds

\* C13: in every confirmed run a 1-second delay elapses between the
\* protection PUT for main and the protection PUT for develop, whatever the
\* outcome of the first PUT.  (Stated of runs that hold a credential.)
C13_DelayBetweenProtectionPuts ==
    (Confirmed /\ token # <<>>) =>
        \A i, j \in DOMAIN events :
            (i < j /\ IsProtectionPut(events[i], "main")
                   /\ IsProtectionPut(events[j], "develop")) =>
                \E k \in (i + 1)..(j - 1) : IsSleep(events[k], 1)

\* the remote calls of a run, in order: method and endpoint of each
RemoteCalls ==
    LET requests == SelectSeq(events, IsRequest)
    IN [i \in DOMAIN requests |-> <<requests[i].method, requests[i].endpoint>>]

AllCompleted == \A i \in DOMAIN events : events[i].completed

\* the order of section 4's control flow
ExpectedCalls ==
    << <<"GET", <<>>>>,
       <<"GET", <<"branches", "main", "protection">>>>,
       <<"GET", <<"branches", "develop", "protection">>>>,
       <<"PUT", <<"branches", "main", "protection">>>>,
       <<"PUT", <<"branches", "develop", "protection">>>>,
       <<"PUT", <<"vulnerability-alerts">>>>,
       <<"PUT", <<"automated-security-fixes">>>>,
       <<"GET", <<"branches", "main", "protection">>>>,
       <<"GET", <<"branches", "develop", "protection">>>> >>

\* C14: in a confirmed run whose requests all complete, with any statuses
\* after the 200 of the info fetch, the remote calls occur once each, with
\* no retry, in this order: repository-info GET; protection GET for main,
\* then develop; protection PUT for main, then develop; vulnerability-alerts
\* PUT; automated-security-fixes PUT; protection GET for main, then develop;
\* and the run then prints the final summary and ends.
C14_CallsOnceEachInOrder ==
    (Confirmed /\ AllCompleted) =>
        /\ Len(RemoteCalls) <= Len(ExpectedCalls)
        /\ RemoteCalls = SubSeq(ExpectedCalls, 1, Len(RemoteCalls))
        /\ pc = "exited" =>
              (RemoteCalls = ExpectedCalls /\ summary.printed /\ exitCode = 0)
        /\ summary.printed => RemoteCalls = ExpectedCalls

\* a confirmed run has ended at the summary although the protection PUT
\* for main was refused and the fixes toggle answered 403: nothing was retried
C14_Witness ==
    /\ Confirmed /\ AllCompleted
    /\ pc = "exited" /\ summary.printed
    /\ Len(RemoteCalls) = 9
    /\ \E i \in DOMAIN events :
          IsProtectionPut(events[i], "main") /\ events[i].status = 403
    /\ \E i \in DOMAIN events :
          events[i].endpoint = <<"automated-security-fixes">> /\ events[i].status = 403

-----------------------------------------------------------------------------
(* Dashboard: properties *)

TrendCalled == call.fn = "get_trend_data" /\ call.done

\* the snapshot is an object whose metrics_history is a sequence
HistoryIsSequence(d) ==
    d.type = "dict" /\ "metrics_history" \in d.has /\ d.metrics_history.type = "list"

IsoParsable(ts) == ts.form \in {"naive", "zulu", "offset"}

WithinLastDay(ts, t) == ts.t >= t - 24 /\ ts.t <= t

PointOf(entry, metric) ==
    [timestamp |-> entry.ts,
     value |-> IF metric \in entry.has THEN entry.val[metric] ELSE 0]

PointsOf(items, metric) == [i \in DOMAIN items |-> PointOf(items[i], metric)]

\* C4: for each metric, get_trend_data returns, in history order and once
\* each, a {timestamp, value} point for every history entry whose timestamp
\* is a parseable ISO-8601 string (with or without a Z or UTC-offset suffix)
\* within the 24 hours before the call; value is the entry's field for the
\* metric, or 0 when it is absent.
C4_PointForEveryRecentEntry ==
    (TrendCalled /\ HistoryIsSequence(call.data)) =>
        /\ ~call.result.raised
        /\ call.result.value =
             PointsOf(SelectSeq(call.data.metrics_history.items,
                                LAMBDA e : /\ e.isDict
                                           /\ IsoParsable(e.ts)
                                           /\ WithinLastDay(e.ts, call.now)),
                      call.metric)

\* an entry with a zone-less local timestamp inside the window
LocalRecent(e, t) == e.isDict /\ e.ts.form = "naive" /\ WithinLastDay(e.ts, t)

\* C5: for every content of the history (a sequence of entries of any
\* kind), get_trend_data does not raise, its result holds no entry whose
\* timestamp is older than 24 hours before the call and none whose timestamp
\* is missing or unparsable, and skipping such entries does not stop the
\* loop: the entries with a local timestamp inside the window all appear,
\* in history order.
C5_SkipsOldAndUnparsable ==
    (TrendCalled /\ HistoryIsSequence(call.data)) =>
        /\ ~call.result.raised
        /\ \A i \in DOMAIN call.result.value :
             LET ts == call.result.value[i].timestamp IN
             /\ IsoParsable(ts)
             /\ ts.t >= call.now - 24
        /\ SelectSeq(call.result.value,
                     LAMBDA p : p.timestamp.form = "naive") =
             PointsOf(SelectSeq(call.data.metrics_history.items,
                                LAMBDA e : LocalRecent(e, call.now)),
                      call.metric)

\* an unparsable entry ahead of a recent one: the recent one is returned
C5_Witness ==
    /\ TrendCalled /\ HistoryIsSequence(call.data)
    /\ Len(call.data.metrics_history.items) = 2
    /\ call.data.metrics_history.items[1].ts.form = "garbage"
    /\ Len(call.result.value) = 1

\* the state file is absent, empty, no JSON, or JSON of another layout than
\* {consecutive_failures, last_successful_run, metrics_history: [...]}
Unusable(f) ==
    \/ ~f.exists
    \/ f.text # "json"
    \/ ~(f.json.type = "dict" /\ f.json.has = Keys /\ f.json.metrics_history.type = "list")

\* C6: when every load so far has found the state file absent, empty or
\* corrupt, a request to /api/metrics finds the snapshot at the default
\* structure and is answered, not with an error response, but with
\* latest = {}, four empty trends and status = 0.
C6_UnusableFileGivesDefaults ==
    (resp.state \in {"sent", "error"} /\ \A f \in loadedFrom : Unusable(f)) =>
        /\ data = [type |-> "dict", has |-> Keys, consecutive_failures |-> 0,
                   last_successful_run |-> "",
                   metrics_history |-> [type |-> "list", items |-> <<>>]]
        /\ resp.state # "error"
        /\ resp.state = "sent" =>
             /\ resp.latest = EmptyObject
             /\ \A m \in MetricNames : resp.trends[m] = <<>>
             /\ resp.status = 0

CheckServed == call.fn = "run_check"

\* C7: POST /api/run-check always returns a message, within the 300-second
\* ceiling, and the message tells the outcomes apart: exit code 0 gives the
\* success message, a nonzero exit the failure message with the captured
\* stderr, a run beyond the ceiling the timeout message, a failure to spawn
\* the error message.
C7_RunCheckMessages ==
    CheckServed =>
        /\ call.blocked <= 300
        /\ LET c == call.child
               m == call.result
           IN /\ (~c.spawned) <=> (m.head = "Error running check: ")
              /\ (c.spawned /\ c.duration > 300) <=>
                    (m.head = "Performance check timed out")
              /\ (c.spawned /\ c.duration <= 300 /\ c.returncode = 0) <=>
                    (m.head = "Performance check completed successfully!")
              /\ (c.spawned /\ c.duration <= 300 /\ c.returncode # 0) <=>
                    (m.head = "Performance check failed: " /\ m.detail = c.stderr)

\* a second check is served, and reports the stderr of a child that exited 2
C7_Witness ==
    /\ CheckServed
    /\ call.served = 2
    /\ call.child.returncode = 2 /\ call.child.stderr = <<"E", "\n">>
    /\ call.child.duration < 300
    /\ call.result.detail = <<"E", "\n">>

\* what a load of the file f assigns
LoadOf(f) == load_data(f.exists, f)

\* every part of a response sent is drawn from a snapshot that a load has
\* assigned, never from a file content that no load has read yet
AnsweredFromLoads ==
    resp.state = "sent" =>
        /\ \E f \in loadedFrom :
             LoadOf(f).type = "dict" /\ resp.status = GetStatus(LoadOf(f)).value
        /\ \/ resp.latest = EmptyObject
           \/ \E f \in loadedFrom :
                ~LastEntry(LoadOf(f)).raised /\ resp.latest = LastEntry(LoadOf(f)).value
        /\ \A m \in MetricNames :
             \E f \in loadedFrom, t \in StartTime..now :
                /\ ~get_trend_data(LoadOf(f), m, t).raised
                /\ resp.trends[m] = get_trend_data(LoadOf(f), m, t).value

\* C8: a change of the state file on disk changes no answer by itself:
\* /api/metrics answers from snapshots that loads have assigned, the
\* snapshot changes only in a load of the refresh thread, and (the refresh
\* thread running on) every content the file keeps is eventually the one
\* the snapshot was loaded from.
C8_ChangeSeenAtNextRefresh ==
    /\ []AnsweredFromLoads
    /\ [][data' # data => (rpc = "load" /\ rpc' = "sleep")]_vars
    /\ \A f \in FileContents :
         (stateFile = f) ~> (data = LoadOf(f) \/ stateFile # f)

\* a response was sent with the old status while the file on disk already
\* held another one
C8_Witness ==
    /\ resp.state = "sent" /\ hpc = "idle"
    /\ writes > 0
    /\ data # LoadOf(stateFile)
    /\ data.type = "dict" /\ resp.status = data.consecutive_failures
    /\ LoadOf(stateFile).type = "dict"
    /\ resp.status # LoadOf(stateFile).consecutive_failures

\* C9: under every interleaving of the refresh thread with the handlers the
\* snapshot is a completely loaded object: the whole parsed content of a
\* file that a load has read, or the whole default structure; never a mix
\* of an old and a new load.
C9_SnapshotIsWholeLoad ==
    \E f \in loadedFrom : data = LoadOf(f)

\* a request is under way, holds a latest entry of an earlier snapshot, and
\* the refresh thread has since replaced the snapshot by the default
C9_Witness ==
    /\ hpc = "status"
    /\ resp.latest # EmptyObject
    /\ data = DefaultData
    /\ Cardinality(loadedFrom) > 1

StatusCardsCalled == call.fn = "updateStatusCards" /\ call.done

AlertsCalled == call.fn = "recent_alerts" /\ call.done

\* the lines of the log that are not blank, stripped, in file order
NonEmptyLines(log) ==
    SelectSeq([i \in DOMAIN log.lines |-> Strip(log.lines[i])],
              LAMBDA line : line # <<>>)

\* the last n elements of s, all of s when it has fewer
LastOf(s, n) == SubSeq(s, IF Len(s) > n THEN Len(s) - n + 1 ELSE 1, Len(s))

\* C15: the alerts are the last 10 non-empty lines of the alert log, in
\* file order: whenever the log holds at least 10 non-empty lines exactly 10
\* alerts are returned, also with blank lines among the final lines; when
\* the log is absent or unreadable the alerts are empty (and the call
\* returns).
C15_LastTenNonEmptyLines ==
    AlertsCalled =>
        /\ (~call.log.exists \/ ~call.log.readable) => call.result = <<>>
        /\ (call.log.exists /\ call.log.readable) =>
              /\ call.result = LastOf(NonEmptyLines(call.log), 10)
              /\ Len(NonEmptyLines(call.log)) >= 10 => Len(call.result) = 10

\* C16: every /api/metrics response sent is computed from one and the same
\* loaded snapshot, whatever the refresh thread does meanwhile: its status,
\* its latest entry (the last entry of that snapshot's history, {} when the
\* history is empty) and its four trends (each at the time it was computed)
\* all come from that snapshot.
C16_ResponseFromOneSnapshot ==
    resp.state = "sent" =>
        \E f \in loadedFrom :
            /\ LoadOf(f).type = "dict"
            /\ resp.status = GetStatus(LoadOf(f)).value
            /\ resp.latest = IF HistoryTruthy(LoadOf(f)).value
                             THEN LastEntry(LoadOf(f)).value
                             ELSE EmptyObject
            /\ \A m \in MetricNames :
                 \E t \in StartTime..now :
                    /\ ~get_trend_data(LoadOf(f), m, t).raised
                    /\ resp.trends[m] = get_trend_data(LoadOf(f), m, t).value

\* the card of a `latest` object that reports coverage = v tenths
CoverageCard(v) ==
    /\ StatusCardsCalled
    /\ "coverage" \in call.metrics.has
    /\ call.metrics.val["coverage"] = v

=============================================================================
